---- MODULE Spec2Model ----
(***************************************************************************)
(* Model of the encoded-payload decoding and persistence pipeline of the   *)
(* multipart-encoding-server.                                              *)
(*                                                                         *)
(* Text (a JavaScript string) is a sequence of UTF-16 code units,          *)
(* 0..65535.  A Buffer is a sequence of bytes, 0..255.  An optional value  *)
(* (null or a string) is a sequence of length 0 or 1: Null == <<>>,        *)
(* Some(s) == <<s>>.                                                       *)
(***************************************************************************)
EXTENDS Integers, Sequences, FiniteSets, TLC

VARIABLES
    now,        \* Date.now(): the wall clock, in milliseconds
    files,      \* the file system: path -> content (a Buffer)
    outcomes,   \* the calls of processEncodedData so far, each with its outcome
    client,     \* the caller's pending request (and, for the test client, the bytes it encoded)
    config,     \* REMOTE_UPLOAD_CONFIG: the flags of the remote uploads
    inflight    \* the calls of the asynchronous processEncodedData of the request

vars == <<now, files, outcomes, client, config, inflight>>

\* the state of the server with the remote uploads
remote == <<config, inflight>>

----------------------------------------------------------------------------
(* Bounds of the model *)

\* the engine is called at most MaxCalls times in one behaviour
MaxCalls == 2
\* the clock advances at most to MaxTime
MaxTime == 1
\* payloads drawn for a single call are at most MaxLen code units long
MaxLen == 4
\* byte sequences the test client encodes are at most MaxBytes long
MaxBytes == 4
\* extension hints are at most MaxHint characters long
MaxHint == 3
\* a request body has at most MaxFields fields
MaxFields == 2

----------------------------------------------------------------------------
(* Optional values and small helpers *)

Null == <<>>
Some(s) == <<s>>

\* JavaScript truthiness of (null | string): null and '' are falsy
Truthy(opt) == opt # Null /\ opt[1] # <<>>

\* buf[i] of a Buffer, 0-based; undefined (here -1) outside it
At(buf, i) == IF i + 1 <= Len(buf) THEN buf[i + 1] ELSE -1

\* all sequences over S of length 0..n
SeqsUpTo(S, n) == UNION {[1..k -> S] : k \in 0..n}

RECURSIVE Flatten(_)
\* concatenation of a sequence of sequences
Flatten(ss) == IF ss = <<>> THEN <<>> ELSE Head(ss) \o Flatten(Tail(ss))

----------------------------------------------------------------------------
(* REMOTE_UPLOAD_CONFIG: whether remote uploads are enabled at all, and per *)
(* destination                                                              *)

ConfigValues == [enabled : BOOLEAN, s3 : BOOLEAN, ftp : BOOLEAN, http : BOOLEAN]

\* the configuration of a server started without the environment variables
NoRemote == [enabled |-> FALSE, s3 |-> FALSE, ftp |-> FALSE, http |-> FALSE]

\* a server that uploads nothing and has no asynchronous call under way
RemoteIdle == config = NoRemote /\ inflight = <<>>

----------------------------------------------------------------------------
(* Character classes of the regular expressions *)

\* [0-9]
IsDigit(c) == c \in 48..57
\* [A-Z]
IsUpper(c) == c \in 65..90
\* [a-z]
IsLower(c) == c \in 97..122
\* [0-9a-fA-F]
IsHexDigit(c) == IsDigit(c) \/ c \in 65..70 \/ c \in 97..102
\* [A-Za-z0-9+/]
IsBase64Char(c) == IsUpper(c) \/ IsLower(c) \/ IsDigit(c) \/ c = 43 \/ c = 47
\* \s of a JavaScript regular expression
IsWhitespace(c) ==
    \/ c \in 9..13
    \/ c \in {32, 160, 5760, 8232, 8233, 8239, 8287, 12288, 65279}
    \/ c \in 8192..8202
\* [a-zA-Z0-9.]
IsExtChar(c) == IsUpper(c) \/ IsLower(c) \/ IsDigit(c) \/ c = 46

----------------------------------------------------------------------------
(* Buffer.from(string, encoding) of the Node.js runtime, per encoding.     *)
(* None of them throws for a string argument.                              *)

\* 'binary' (latin1): the low byte of every code unit
BinaryWrite(data) == [i \in 1..Len(data) |-> data[i] % 256]

\* an 'ascii' writer that clears bit 7 of every byte
AsciiWriteMasked(data) == [i \in 1..Len(data) |-> data[i] % 128]

\* 'ascii': when a string is written into a Buffer, Node treats 'ascii' as
\* 'latin1', so the low byte of every code unit is kept (bit 7 included)
AsciiWrite(data) == [i \in 1..Len(data) |-> data[i] % 256]

IsHighSurrogate(c) == c \in 55296..56319
IsLowSurrogate(c) == c \in 56320..57343

\* the UTF-8 bytes of the code point cp
Utf8Bytes(cp) ==
    IF cp < 128 THEN <<cp>>
    ELSE IF cp < 2048 THEN <<192 + (cp \div 64), 128 + (cp % 64)>>
    ELSE IF cp < 65536 THEN
        <<224 + (cp \div 4096), 128 + ((cp \div 64) % 64), 128 + (cp % 64)>>
    ELSE <<240 + (cp \div 262144), 128 + ((cp \div 4096) % 64),
           128 + ((cp \div 64) % 64), 128 + (cp % 64)>>

RECURSIVE Utf8WriteUnpaired(_)
\* a utf8 writer that encodes the two halves of a surrogate pair one by one
Utf8WriteUnpaired(data) ==
    IF data = <<>> THEN <<>> ELSE Utf8Bytes(data[1]) \o Utf8WriteUnpaired(Tail(data))

RECURSIVE Utf8Write(_)
\* 'utf8': surrogate pairs become one 4-byte sequence, a lone surrogate
\* becomes U+FFFD (EF BF BD)
Utf8Write(data) ==
    IF data = <<>> THEN <<>>
    ELSE IF IsHighSurrogate(data[1]) /\ Len(data) >= 2 /\ IsLowSurrogate(data[2]) THEN
        Utf8Bytes(65536 + (data[1] - 55296) * 1024 + (data[2] - 56320))
            \o Utf8Write(SubSeq(data, 3, Len(data)))
    ELSE IF IsHighSurrogate(data[1]) \/ IsLowSurrogate(data[1]) THEN
        Utf8Bytes(65533) \o Utf8Write(Tail(data))
    ELSE Utf8Bytes(data[1]) \o Utf8Write(Tail(data))

\* 'utf16le': two bytes per code unit, low byte first
Utf16leWrite(data) == Flatten([i \in 1..Len(data) |-> <<data[i] % 256, data[i] \div 256>>])

\* a 'ucs2' writer that puts the high byte first
Ucs2WriteBigEndian(data) ==
    Flatten([i \in 1..Len(data) |-> <<data[i] \div 256, data[i] % 256>>])

\* 'ucs2': Node's alias of 'utf16le'
Ucs2Write(data) == Flatten([i \in 1..Len(data) |-> <<data[i] % 256, data[i] \div 256>>])

\* the value of a hexadecimal digit
HexVal(c) == IF IsDigit(c) THEN c - 48 ELSE IF c \in 65..70 THEN c - 55 ELSE c - 87

RECURSIVE HexWrite(_)
\* 'hex': pairs of digits become bytes; decoding stops at the first pair that
\* is not two hex digits, and a trailing single digit is dropped
HexWrite(data) ==
    IF Len(data) < 2 \/ ~IsHexDigit(data[1]) \/ ~IsHexDigit(data[2]) THEN <<>>
    ELSE <<HexVal(data[1]) * 16 + HexVal(data[2])>> \o HexWrite(SubSeq(data, 3, Len(data)))

\* the 6-bit value of a base64 character, standard or URL-safe; -1 if none
Unbase64(c) ==
    IF IsUpper(c) THEN c - 65
    ELSE IF IsLower(c) THEN c - 71
    ELSE IF IsDigit(c) THEN c + 4
    ELSE IF c = 43 \/ c = 45 THEN 62
    ELSE IF c = 47 \/ c = 95 THEN 63
    ELSE -1

RECURSIVE UntilPad(_)
\* the part of a base64 string before its first '='
UntilPad(data) ==
    IF data = <<>> \/ data[1] = 61 THEN <<>> ELSE <<data[1]>> \o UntilPad(Tail(data))

RECURSIVE SextetsToBytes(_)
\* groups of four 6-bit values become three bytes; a rest of two values
\* becomes one byte, a rest of three becomes two, a rest of one is dropped
SextetsToBytes(v) ==
    IF Len(v) < 2 THEN <<>>
    ELSE IF Len(v) = 2 THEN <<v[1] * 4 + (v[2] \div 16)>>
    ELSE IF Len(v) = 3 THEN <<v[1] * 4 + (v[2] \div 16), (v[2] % 16) * 16 + (v[3] \div 4)>>
    ELSE <<v[1] * 4 + (v[2] \div 16), (v[2] % 16) * 16 + (v[3] \div 4), (v[3] % 4) * 64 + v[4]>>
            \o SextetsToBytes(SubSeq(v, 5, Len(v)))

IsUnbase64(c) == Unbase64(c) >= 0

\* 'base64': Node's decoder is lenient: it skips every character outside the
\* alphabets, stops at the first '=', and accepts '-' and '_' as 62 and 63
Base64Write(data) ==
    LET legal == SelectSeq(UntilPad(data), IsUnbase64)
    IN  SextetsToBytes([i \in 1..Len(legal) |-> Unbase64(legal[i])])

\* Buffer.from(data, encoding), by Node's encoding name
BufferFrom(data, encoding) ==
    CASE encoding = "binary" -> BinaryWrite(data)
      [] encoding = "ascii" -> AsciiWrite(data)
      [] encoding = "utf8" -> Utf8Write(data)
      [] encoding = "utf16le" -> Utf16leWrite(data)
      [] encoding = "ucs2" -> Ucs2Write(data)
      [] encoding = "hex" -> HexWrite(data)
      [] encoding = "base64" -> Base64Write(data)

\* a payload that is no string: undefined
NotAString == <<-1>>

\* Buffer.from(data, encoding) throws a TypeError when data is undefined; it
\* never throws for a string
BufferFromThrows(data, encoding) == data = NotAString

\* the message of that TypeError
BufferFromMessage ==
    "The first argument must be of type string or an instance of Buffer, ArrayBuffer, or Array or an Array-like Object. Received undefined"

\* the message of the TypeError of undefined.replace(...)
ReplaceMessage == "Cannot read properties of undefined (reading 'replace')"


----------------------------------------------------------------------------
(* processEncodedData of the multipart server: validation and decoding *)

\* /^[0-9a-fA-F]+$/.test(data)
HexRegexTest(data) == data # <<>> /\ \A i \in 1..Len(data) : IsHexDigit(data[i])

IsNotWhitespace(c) == ~IsWhitespace(c)

\* data.replace(/\s/g, '')
StripWhitespace(data) == SelectSeq(data, IsNotWhitespace)

\* /^[A-Za-z0-9+/]*={0,2}$/.test(cleanData)
Base64RegexTest(cleanData) ==
    \E pad \in 0..2 :
        /\ pad <= Len(cleanData)
        /\ \A i \in 1..Len(cleanData) :
              IF i <= Len(cleanData) - pad THEN IsBase64Char(cleanData[i]) ELSE cleanData[i] = 61

\* cleanData.replace(/-/g, '+').replace(/_/g, '/')
ReplaceUrlSafe(cleanData) ==
    [i \in 1..Len(cleanData) |->
        IF cleanData[i] = 45 THEN 43 ELSE IF cleanData[i] = 95 THEN 47 ELSE cleanData[i]]

\* the switch leaves by a throw: e.message, after bufferCalls calls of Buffer.from
Thrown(message, bufferCalls) ==
    [threw |-> TRUE, message |-> message, decodedData |-> <<>>, bufferCalls |-> bufferCalls]

\* the switch leaves by a break with decodedData set
Decoded(buffer, bufferCalls) ==
    [threw |-> FALSE, message |-> "", decodedData |-> buffer, bufferCalls |-> bufferCalls]

\* buffer = Buffer.from(data, encoding); decodedData = buffer; break
TryBufferFrom(data, encoding) ==
    IF BufferFromThrows(data, encoding) THEN Thrown(BufferFromMessage, 1)
    ELSE Decoded(BufferFrom(data, encoding), 1)

\* the inner try/catch of case 'base64': the standard decode, and the URL-safe
\* retry in its catch block
Base64TryDecode(cleanData) ==
    IF ~BufferFromThrows(cleanData, "base64") THEN Decoded(BufferFrom(cleanData, "base64"), 1)
    ELSE LET urlSafeData == ReplaceUrlSafe(cleanData)
         IN  IF ~BufferFromThrows(urlSafeData, "base64")
             THEN Decoded(BufferFrom(urlSafeData, "base64"), 2)
             ELSE Thrown("Base64 decoding failed", 2)

\* case 'base64' without the check of the length
DecodeBase64NoLengthCheck(data) ==
    LET cleanData == StripWhitespace(data)
    IN  IF data = NotAString THEN Thrown(ReplaceMessage, 0)
        ELSE IF ~Base64RegexTest(cleanData) THEN Thrown("Invalid base64 format", 0)
        ELSE Base64TryDecode(cleanData)

\* case 'base64' with the length checked before the format
DecodeBase64LengthFirst(data) ==
    LET cleanData == StripWhitespace(data)
    IN  IF data = NotAString THEN Thrown(ReplaceMessage, 0)
        ELSE IF Len(cleanData) % 4 # 0 THEN Thrown("Invalid base64 string length", 0)
        ELSE IF ~Base64RegexTest(cleanData) THEN Thrown("Invalid base64 format", 0)
        ELSE Base64TryDecode(cleanData)

\* case 'base64'
DecodeBase64(data) ==
    LET cleanData == StripWhitespace(data)
    IN  IF data = NotAString THEN Thrown(ReplaceMessage, 0)
        ELSE IF ~Base64RegexTest(cleanData) THEN Thrown("Invalid base64 format", 0)
        ELSE IF Len(cleanData) % 4 # 0 THEN Thrown("Invalid base64 string length", 0)
        ELSE Base64TryDecode(cleanData)

\* case 'hex'
DecodeHex(data) ==
    IF ~HexRegexTest(data) THEN Thrown("Invalid hexadecimal string", 0)
    ELSE TryBufferFrom(data, "hex")

\* a switch whose default decodes as utf8 instead of throwing
DecodeSwitchDefaultsToUtf8(data, encoding) ==
    CASE encoding = "binary" -> TryBufferFrom(data, "binary")
      [] encoding = "ascii" -> TryBufferFrom(data, "ascii")
      [] encoding = "utf-16le" -> TryBufferFrom(data, "utf16le")
      [] encoding = "ucs2" -> TryBufferFrom(data, "ucs2")
      [] encoding = "hex" -> DecodeHex(data)
      [] encoding = "base64" -> DecodeBase64(data)
      [] OTHER -> TryBufferFrom(data, "utf8")

\* switch (encoding)
DecodeSwitch(data, encoding) ==
    CASE encoding = "binary" -> TryBufferFrom(data, "binary")
      [] encoding = "ascii" -> TryBufferFrom(data, "ascii")
      [] encoding \in {"utf8", "utf-8"} -> TryBufferFrom(data, "utf8")
      [] encoding = "utf-16le" -> TryBufferFrom(data, "utf16le")
      [] encoding = "ucs2" -> TryBufferFrom(data, "ucs2")
      [] encoding = "hex" -> DecodeHex(data)
      [] encoding = "base64" -> DecodeBase64(data)
      [] OTHER -> Thrown("Unsupported encoding: " \o encoding, 0)

\* if (!decodedData || decodedData.length === 0) throw
IsEmptyDecoded(decodedData) == Len(decodedData) = 0

----------------------------------------------------------------------------
(* processEncodedData: the file extension *)

\* '.bin', '.jpg', '.png', '.gif', '.bmp'
ExtBin == <<46, 98, 105, 110>>
ExtJpg == <<46, 106, 112, 103>>
ExtPng == <<46, 112, 110, 103>>
ExtGif == <<46, 103, 105, 102>>
ExtBmp == <<46, 98, 109, 112>>

\* the extension of a (truthy) hint: a leading '.' is added unless the hint
\* starts with one, then every character outside [a-zA-Z0-9.] is removed
HintExt(hint) ==
    SelectSeq(IF hint[1] = 46 THEN hint ELSE <<46>> \o hint, IsExtChar)

\* a sniffer that takes FF D8 alone for a JPEG
SniffExtTwoBytes(decodedData) ==
    IF At(decodedData, 0) = 255 /\ At(decodedData, 1) = 216 THEN ExtJpg
    ELSE IF At(decodedData, 0) = 137 /\ At(decodedData, 1) = 80 /\ At(decodedData, 2) = 78
            /\ At(decodedData, 3) = 71 THEN ExtPng
    ELSE IF At(decodedData, 0) = 71 /\ At(decodedData, 1) = 73 /\ At(decodedData, 2) = 70
        THEN ExtGif
    ELSE IF At(decodedData, 0) = 66 /\ At(decodedData, 1) = 77 THEN ExtBmp
    ELSE ExtBin

\* the image signature of the first bytes, or '.bin'
SniffExt(decodedData) ==
    LET header == SubSeq(decodedData, 1, IF Len(decodedData) < 8 THEN Len(decodedData) ELSE 8)
    IN  IF At(header, 0) = 255 /\ At(header, 1) = 216 /\ At(header, 2) = 255 THEN ExtJpg
        ELSE IF At(header, 0) = 137 /\ At(header, 1) = 80 /\ At(header, 2) = 78
                /\ At(header, 3) = 71 THEN ExtPng
        ELSE IF At(header, 0) = 71 /\ At(header, 1) = 73 /\ At(header, 2) = 70 THEN ExtGif
        ELSE IF At(header, 0) = 66 /\ At(header, 1) = 77 THEN ExtBmp
        ELSE ExtBin

\* an extension that is sniffed whatever the encoding
DetermineExtSniffsAll(fileExtension, encoding, decodedData) ==
    IF Truthy(fileExtension) THEN HintExt(fileExtension[1]) ELSE SniffExt(decodedData)

\* the value of ext when the file name is composed
DetermineExt(fileExtension, encoding, decodedData) ==
    IF Truthy(fileExtension) THEN HintExt(fileExtension[1])
    ELSE IF encoding = "base64" THEN SniffExt(decodedData)
    ELSE ExtBin

----------------------------------------------------------------------------
(* processEncodedData: the file name and the write *)

UPLOAD_DIR == "uploads"

\* `${Date.now()}-${fieldname}-${encoding}${ext}`: the four parts of the name
Filename(t, fieldname, encoding, ext) == <<t, fieldname, encoding, ext>>

\* the parts of a field name between its '/' characters
Segments(fieldname) ==
    CASE fieldname = "file/a" -> <<"file", "a">>
      [] fieldname = "file/../x" -> <<"file", "..", "x">>
      [] fieldname = "file/../../x" -> <<"file", "..", "..", "x">>
      [] fieldname = "file2/../x" -> <<"file2", "..", "x">>
      [] OTHER -> <<fieldname>>

\* the first component of a name has no time stamp in front
NoStamp == -1

RECURSIVE Walk(_, _)
\* path.normalize: the directories left of `stack` after the components segs
\* ('..' leaves the last directory; above the start it stays '..')
Walk(stack, segs) ==
    IF segs = <<>> THEN stack
    ELSE IF Head(segs) # ".." THEN Walk(Append(stack, Head(segs)), Tail(segs))
    ELSE IF stack = <<>> \/ stack[Len(stack)] = ".." THEN Walk(Append(stack, ".."), Tail(segs))
    ELSE Walk(SubSeq(stack, 1, Len(stack) - 1), Tail(segs))

RECURSIVE DirName(_)
\* the directories of stack, joined by '/'; '.' is the directory of the server
DirName(stack) ==
    IF stack = <<>> THEN "."
    ELSE IF Len(stack) = 1 THEN stack[1]
    ELSE DirName(SubSeq(stack, 1, Len(stack) - 1)) \o "/" \o stack[Len(stack)]

\* path.join(UPLOAD_DIR, filename): the directory the name resolves into and
\* the last component of the name.  A field name without '/' gives
\* <<dir, filename>>; with '/' in it the first component, time stamp
\* included, is a directory, and the last component has no time stamp.
PathJoin(dir, filename) ==
    LET segs == Segments(filename[2])
        n == Len(segs)
        first == ToString(filename[1]) \o "-" \o segs[1]
    IN  IF n = 1 THEN <<dir, filename>>
        ELSE <<DirName(Walk(<<dir, first>>, SubSeq(segs, 2, n - 1))),
               <<NoStamp, segs[n], filename[3], filename[4]>> >>

\* the directories that exist: UPLOAD_DIR, the directory of the server and
\* the one above it
ExistingDirs == {UPLOAD_DIR, ".", ".."}

\* the outcomes of fs.writeFileSync the environment decides: it writes the
\* file, or it throws (the open fails) and the file system is as before
IoResults == {"ok", "EACCES"}

\* how fs.writeFileSync(filepath, ...) ends when the environment says io: in
\* a directory that does not exist the open fails
WriteOutcome(filepath, io) == IF filepath[1] \in ExistingDirs THEN io ELSE "ENOENT"

\* an error message that does not say what went wrong
IoMessageGeneric(io) == "write failed"

\* the message of the error fs.writeFileSync throws
IoMessage(io) ==
    IF io = "ENOENT" THEN "ENOENT: no such file or directory, open"
    ELSE io \o ": permission denied, open"

\* a write that keeps a file that is already there
WriteFileSyncKeepsOld(fsys, filepath, decodedData, io) ==
    IF io = "ok" /\ filepath \notin DOMAIN fsys
    THEN [p \in DOMAIN fsys \cup {filepath} |-> IF p = filepath THEN decodedData ELSE fsys[p]]
    ELSE fsys

\* a write that leaves an empty file behind when it fails
WriteFileSyncTruncates(fsys, filepath, decodedData, io) ==
    [p \in DOMAIN fsys \cup {filepath} |->
        IF p = filepath THEN (IF io = "ok" THEN decodedData ELSE <<>>) ELSE fsys[p]]

\* the file system after fs.writeFileSync(filepath, decodedData)
WriteFileSync(fsys, filepath, decodedData, io) ==
    IF io = "ok"
    THEN [p \in DOMAIN fsys \cup {filepath} |-> IF p = filepath THEN decodedData ELSE fsys[p]]
    ELSE fsys

\* the record returned from the try block
SuccessResult(fieldname, encoding, decodedData, filepath, data) ==
    [fieldname |-> fieldname, encoding |-> encoding, size |-> Len(decodedData),
     path |-> filepath, success |-> TRUE, decoded |-> TRUE, originalSize |-> Len(data)]

\* a failure record without a reason
FailureResultBare(fieldname, encoding, message) ==
    [fieldname |-> fieldname, encoding |-> encoding, error |-> "", success |-> FALSE]

\* the record returned from the catch block
FailureResult(fieldname, encoding, message) ==
    [fieldname |-> fieldname, encoding |-> encoding,
     error |-> "Failed to process " \o encoding \o " data: " \o message, success |-> FALSE]

\* processEncodedData(data, encoding, fieldname, fileExtension) called at time
\* t on the file system fsys, the write ending as io says: the record it
\* returns, the file system it leaves, and what it did on the way
ProcessEncodedData(fsys, t, data, encoding, fieldname, fileExtension, io) ==
    LET d == DecodeSwitch(data, encoding)
        ext == DetermineExt(fileExtension, encoding, d.decodedData)
        filepath == PathJoin(UPLOAD_DIR, Filename(t, fieldname, encoding, ext))
        wio == WriteOutcome(filepath, io)
        done(result, fsys2, writes) ==
            [result |-> result, files |-> fsys2, decodedData |-> d.decodedData,
             bufferCalls |-> d.bufferCalls, writes |-> writes]
    IN  IF d.threw THEN done(FailureResult(fieldname, encoding, d.message), fsys, 0)
        ELSE IF IsEmptyDecoded(d.decodedData)
            THEN done(FailureResult(fieldname, encoding, "Decoded data is empty"), fsys, 0)
        ELSE IF wio # "ok"
            THEN done(FailureResult(fieldname, encoding, IoMessage(wio)),
                      WriteFileSync(fsys, filepath, d.decodedData, wio), 1)
        ELSE done(SuccessResult(fieldname, encoding, d.decodedData, filepath, data),
                  WriteFileSync(fsys, filepath, d.decodedData, wio), 1)


----------------------------------------------------------------------------
(* The inputs the model draws *)

\* "Hello"
Hello == <<72, 101, 108, 108, 111>>
\* "48656c6c6f"
HelloHex == <<52, 56, 54, 53, 54, 99, 54, 99, 54, 102>>
\* "SGVsbG8="
HelloBase64 == <<83, 71, 86, 115, 98, 71, 56, 61>>
\* "SGVsbG8"
HelloBase64NoPad == <<83, 71, 86, 115, 98, 71, 56>>
\* "SGVs bG8\n="
HelloBase64Spaced == <<83, 71, 86, 115, 32, 98, 71, 56, 10, 61>>
\* "-_-_": the URL-safe spelling of "+/+/"
UrlSafeBase64 == <<45, 95, 45, 95>>
\* "/9j/": base64 of FF D8 FF
JpegBase64 == <<47, 57, 106, 47>>
\* "zz"
NotHex == <<122, 122>>
\* "abc": three hex digits
OddHex == <<97, 98, 99>>
\* a surrogate pair (U+1F600) and a lone high surrogate
Astral == <<55357, 56832, 55357>>
\* "txt"
HintTxt == <<116, 120, 116>>

\* 'a' 'z' '=' ' ' '-' and U+00E9
Alphabet == {97, 122, 61, 32, 45, 233}

Examples ==
    {HelloHex, HelloBase64, HelloBase64NoPad, HelloBase64Spaced, UrlSafeBase64,
     JpegBase64, NotHex, OddHex, Astral}

\* the payloads of a single call
Payloads == SeqsUpTo(Alphabet, MaxLen) \cup Examples

\* the seven documented names
SupportedEncodings == {"binary", "ascii", "utf8", "utf-16le", "ucs2", "hex", "base64"}

\* the values of the encoding argument: the documented names, the alias the
\* switch accepts, and names it does not know
Encodings == SupportedEncodings \cup {"utf-8", "rot13", "utf16le"}

\* the field names of the calls: a plain one, and one whose '..' leads out of
\* the directory its first component names
FieldNames == {"file1", "file/../x"}

Hints == {Null, Some(HintTxt)}

\* the requests of a caller that passes any payload with any encoding
Requests ==
    [data : Payloads, encoding : Encodings, fieldname : {"file1"},
     fileExtension : Hints, bytes : {Null}]

\* "abcd": hex digits and base64 characters at once
HexAndBase64 == <<97, 98, 99, 100>>

\* the payload and the encoding of the calls of a longer run: calls that
\* succeed with different bytes, and one that fails at each stage
RunInputs ==
    {<<HelloHex, "hex">>, <<HexAndBase64, "hex">>, <<HexAndBase64, "base64">>,
     <<NotHex, "hex">>, <<HelloHex, "rot13">>, << <<>>, "utf8">>}

----------------------------------------------------------------------------
(* The state machine *)

\* the log entry of one call: its arguments, when it ran, and what
\* ProcessEncodedData did
Entry(t, data, encoding, fieldname, fileExtension, io, r) ==
    [at |-> t, data |-> data, encoding |-> encoding, fieldname |-> fieldname,
     fileExtension |-> fileExtension, io |-> io, result |-> r.result,
     decodedData |-> r.decodedData, bufferCalls |-> r.bufferCalls, writes |-> r.writes]

\* one call of processEncodedData, start to return: it is synchronous, so
\* nothing else runs in between
Call(data, encoding, fieldname, fileExtension, io) ==
    LET r == ProcessEncodedData(files, now, data, encoding, fieldname, fileExtension, io)
    IN  /\ files' = r.files
        /\ outcomes' = Append(outcomes, Entry(now, data, encoding, fieldname, fileExtension, io, r))
        /\ UNCHANGED <<now, client, remote>>

\* a millisecond passes
Tick ==
    /\ now < MaxTime
    /\ now' = now + 1
    /\ UNCHANGED <<files, outcomes, client, remote>>

\* some caller calls the engine
Process ==
    /\ client = Null
    /\ Len(outcomes) < MaxCalls
    /\ \E input \in RunInputs, fieldname \in FieldNames,
          fileExtension \in Hints, io \in IoResults :
            Call(input[1], input[2], fieldname, fileExtension, io)

\* the caller submits its pending request
Submit ==
    /\ client # Null
    /\ Len(outcomes) = 0
    /\ \E io \in IoResults :
          Call(client[1].data, client[1].encoding, client[1].fieldname,
               client[1].fileExtension, io)

NoFiles == [p \in {} |-> <<>>]

Init ==
    /\ now = 0
    /\ files = NoFiles
    /\ outcomes = <<>>
    /\ RemoteIdle
    /\ client = Null

Next == Tick \/ Process

\* the server, called any number of times
Spec == Init /\ [][Next]_vars

InitDecode ==
    /\ now = 0
    /\ files = NoFiles
    /\ outcomes = <<>>
    /\ RemoteIdle
    /\ client \in {Some(q) : q \in Requests}

NextDecode == Submit

\* one call of processEncodedData, on every request of Requests
SpecDecode == InitDecode /\ [][NextDecode]_vars


----------------------------------------------------------------------------
(* The server that reads urlencoded bodies: its processEncodedData decodes *)
(* with no validation and no check of the decoded length                   *)

\* switch (encoding)
DecodeSwitchUnchecked(data, encoding) ==
    CASE encoding = "binary" -> TryBufferFrom(data, "binary")
      [] encoding = "ascii" -> TryBufferFrom(data, "ascii")
      [] encoding \in {"utf8", "utf-8"} -> TryBufferFrom(data, "utf8")
      [] encoding = "utf-16le" -> TryBufferFrom(data, "utf16le")
      [] encoding = "ucs2" -> TryBufferFrom(data, "ucs2")
      [] encoding = "hex" -> TryBufferFrom(data, "hex")
      [] encoding = "base64" -> TryBufferFrom(data, "base64")
      [] OTHER -> Thrown("Unsupported encoding: " \o encoding, 0)

\* the value of ext when the file name is composed
DetermineExtUnchecked(fileExtension) ==
    IF Truthy(fileExtension) THEN HintExt(fileExtension[1]) ELSE ExtBin

\* the record returned from the try block
SuccessResultUnchecked(fieldname, encoding, decodedData, filepath) ==
    [fieldname |-> fieldname, encoding |-> encoding, size |-> Len(decodedData),
     path |-> filepath, success |-> TRUE]

\* processEncodedData(data, encoding, fieldname, fileExtension) of that server
ProcessEncodedDataUnchecked(fsys, t, data, encoding, fieldname, fileExtension, io) ==
    LET d == DecodeSwitchUnchecked(data, encoding)
        ext == DetermineExtUnchecked(fileExtension)
        filepath == PathJoin(UPLOAD_DIR, Filename(t, fieldname, encoding, ext))
        wio == WriteOutcome(filepath, io)
        done(result, fsys2, writes) ==
            [result |-> result, files |-> fsys2, decodedData |-> d.decodedData,
             bufferCalls |-> d.bufferCalls, writes |-> writes]
    IN  IF d.threw THEN done(FailureResult(fieldname, encoding, d.message), fsys, 0)
        ELSE IF wio # "ok"
            THEN done(FailureResult(fieldname, encoding, IoMessage(wio)),
                      WriteFileSync(fsys, filepath, d.decodedData, wio), 1)
        ELSE done(SuccessResultUnchecked(fieldname, encoding, d.decodedData, filepath),
                  WriteFileSync(fsys, filepath, d.decodedData, wio), 1)

\* one call of that processEncodedData, start to return
CallUnchecked(data, encoding, fieldname, fileExtension, io) ==
    LET r == ProcessEncodedDataUnchecked(files, now, data, encoding, fieldname, fileExtension, io)
    IN  /\ files' = r.files
        /\ outcomes' = Append(outcomes, Entry(now, data, encoding, fieldname, fileExtension, io, r))
        /\ UNCHANGED <<now, client, remote>>

\* the caller submits its pending request to that server
SubmitUnchecked ==
    /\ client # Null
    /\ Len(outcomes) = 0
    /\ \E io \in IoResults :
          CallUnchecked(client[1].data, client[1].encoding, client[1].fieldname,
                        client[1].fileExtension, io)

NextUnchecked == SubmitUnchecked

\* one call of the unvalidated processEncodedData, on every request of Requests
SpecUnchecked == InitDecode /\ [][NextUnchecked]_vars

----------------------------------------------------------------------------
(* The test client: buf.toString(encoding) of createTestData, which turns  *)
(* the bytes of a file into the text of a form field                       *)

\* toString('binary'): one code unit per byte
BinarySlice(bytes) == [i \in 1..Len(bytes) |-> bytes[i]]

\* toString('ascii'): one code unit per byte, bit 7 cleared
AsciiSlice(bytes) == [i \in 1..Len(bytes) |-> bytes[i] % 128]

\* the lower-case hex digit of a value 0..15
HexDigit(v) == IF v < 10 THEN 48 + v ELSE 87 + v

\* toString('hex'): two digits per byte
HexSlice(bytes) ==
    Flatten([i \in 1..Len(bytes) |-> <<HexDigit(bytes[i] \div 16), HexDigit(bytes[i] % 16)>>])

\* the standard base64 character of a value 0..63
Base64Char(v) ==
    IF v < 26 THEN 65 + v
    ELSE IF v < 52 THEN 71 + v
    ELSE IF v < 62 THEN v - 4
    ELSE IF v = 62 THEN 43 ELSE 47

RECURSIVE Base64Slice(_)
\* toString('base64'): four characters per three bytes, '=' padded
Base64Slice(bytes) ==
    IF bytes = <<>> THEN <<>>
    ELSE IF Len(bytes) = 1 THEN
        <<Base64Char(bytes[1] \div 4), Base64Char((bytes[1] % 4) * 16), 61, 61>>
    ELSE IF Len(bytes) = 2 THEN
        <<Base64Char(bytes[1] \div 4), Base64Char((bytes[1] % 4) * 16 + (bytes[2] \div 16)),
          Base64Char((bytes[2] % 16) * 4), 61>>
    ELSE <<Base64Char(bytes[1] \div 4), Base64Char((bytes[1] % 4) * 16 + (bytes[2] \div 16)),
           Base64Char((bytes[2] % 16) * 4 + (bytes[3] \div 64)), Base64Char(bytes[3] % 64)>>
            \o Base64Slice(SubSeq(bytes, 4, Len(bytes)))

\* toString('utf16le') and toString('ucs2'): one code unit per two bytes, low
\* byte first; a last single byte is dropped
Ucs2Slice(bytes) ==
    [i \in 1..(Len(bytes) \div 2) |-> bytes[2 * i - 1] + 256 * bytes[2 * i]]

IsContinuation(b) == b \in 128..191

\* the number of continuation bytes the lead byte b asks for (0 for a byte
\* that leads nothing)
Utf8Needs(b) ==
    IF b \in 194..223 THEN 1 ELSE IF b \in 224..239 THEN 2 ELSE IF b \in 240..244 THEN 3 ELSE 0

\* whether b2 may follow the lead byte b1
Utf8SecondOk(b1, b2) ==
    CASE b1 = 224 -> b2 \in 160..191
      [] b1 = 237 -> b2 \in 128..159
      [] b1 = 240 -> b2 \in 144..191
      [] b1 = 244 -> b2 \in 128..143
      [] OTHER -> IsContinuation(b2)

\* how many of the bytes after the lead byte bytes[1] continue it (at most
\* the number it asks for)
Utf8Continues(bytes) ==
    LET want == Utf8Needs(bytes[1])
        ok(k) == /\ k <= want
                 /\ k + 1 <= Len(bytes)
                 /\ \A j \in 1..k : IF j = 1 THEN Utf8SecondOk(bytes[1], bytes[2])
                                             ELSE IsContinuation(bytes[j + 1])
    IN  CHOOSE k \in 0..3 : ok(k) /\ \A m \in 0..3 : ok(m) => m <= k

\* the code units of the code point cp
CodeUnits(cp) ==
    IF cp < 65536 THEN <<cp>>
    ELSE <<55296 + ((cp - 65536) \div 1024), 56320 + ((cp - 65536) % 1024)>>

\* the code point of a complete sequence: its lead byte and n continuations
Utf8CodePoint(bytes, n) ==
    CASE n = 1 -> (bytes[1] % 32) * 64 + (bytes[2] % 64)
      [] n = 2 -> (bytes[1] % 16) * 4096 + (bytes[2] % 64) * 64 + (bytes[3] % 64)
      [] n = 3 -> (bytes[1] % 8) * 262144 + (bytes[2] % 64) * 4096
                    + (bytes[3] % 64) * 64 + (bytes[4] % 64)

RECURSIVE Utf8Slice(_)
\* toString('utf8'): every ill-formed part becomes U+FFFD
Utf8Slice(bytes) ==
    IF bytes = <<>> THEN <<>>
    ELSE IF bytes[1] < 128 THEN <<bytes[1]>> \o Utf8Slice(Tail(bytes))
    ELSE LET n == Utf8Continues(bytes)
         IN  IF Utf8Needs(bytes[1]) > 0 /\ n = Utf8Needs(bytes[1])
             THEN CodeUnits(Utf8CodePoint(bytes, n)) \o Utf8Slice(SubSeq(bytes, n + 2, Len(bytes)))
             ELSE <<65533>> \o Utf8Slice(SubSeq(bytes, n + 2, Len(bytes)))

\* buf.toString(name) for the encoding the request names
BufToString(bytes, encoding) ==
    CASE encoding = "binary" -> BinarySlice(bytes)
      [] encoding = "ascii" -> AsciiSlice(bytes)
      [] encoding \in {"utf8", "utf-8"} -> Utf8Slice(bytes)
      [] encoding \in {"utf-16le", "ucs2"} -> Ucs2Slice(bytes)
      [] encoding = "hex" -> HexSlice(bytes)
      [] encoding = "base64" -> Base64Slice(bytes)

\* LF, 'A', and the bytes of U+00E9 (C3 A9), of three-byte and of four-byte
\* sequences (E2.., F0 9F ..)
ByteAlphabet == {10, 65, 195, 169, 226, 240, 159, 128}

\* the files the test client encodes
ByteSeqs == SeqsUpTo(ByteAlphabet, MaxBytes)

\* the request of the test client for a file: the file, encoded for the
\* encoding the request names
EncodedRequest(bytes, encoding) ==
    [data |-> BufToString(bytes, encoding), encoding |-> encoding, fieldname |-> "file1",
     fileExtension |-> Null, bytes |-> Some(bytes)]

InitRoundTrip ==
    /\ now = 0
    /\ files = NoFiles
    /\ outcomes = <<>>
    /\ RemoteIdle
    /\ client \in {Some(EncodedRequest(q[1], q[2])) :
                      q \in ByteSeqs \X (SupportedEncodings \cup {"utf-8"})}

NextRoundTrip == Submit

\* one call of processEncodedData, on everything the test client encodes
SpecRoundTrip == InitRoundTrip /\ [][NextRoundTrip]_vars

----------------------------------------------------------------------------
(* The test client sends one payload under several encodings                *)

\* the two names of UTF-16, little-endian
Utf16Names == {"utf-16le", "ucs2"}

\* the client sends its payload once more, as utf-16le or as ucs2
SubmitUtf16 ==
    /\ client # Null
    /\ Len(outcomes) < 2
    /\ \E encoding \in Utf16Names, io \in IoResults :
          Call(client[1].data, encoding, client[1].fieldname, client[1].fileExtension, io)

InitUtf16 ==
    /\ now = 0
    /\ files = NoFiles
    /\ outcomes = <<>>
    /\ RemoteIdle
    /\ client \in {Some(q) : q \in {r \in Requests : r.encoding = "utf-16le"}}

NextUtf16 == SubmitUtf16

\* two calls of processEncodedData on one payload, each as utf-16le or ucs2
SpecUtf16 == InitUtf16 /\ [][NextUtf16]_vars

----------------------------------------------------------------------------
(* Calls that differ in the extension hint and in the first decoded bytes   *)

\* "iVBORw==": base64 of 89 50 4E 47
PngBase64 == <<105, 86, 66, 79, 82, 119, 61, 61>>
\* "R0lG": base64 of 47 49 46
GifBase64 == <<82, 48, 108, 71>>
\* "Qk0=": base64 of 42 4D
BmpBase64 == <<81, 107, 48, 61>>
\* "/9g=": base64 of FF D8, a JPEG signature cut short
ShortJpegBase64 == <<47, 57, 103, 61>>
\* "iVBO": base64 of 89 50 4E, a PNG signature cut short
ShortPngBase64 == <<105, 86, 66, 79>>
\* "AAAA": base64 of 00 00 00
ZeroBase64 == <<65, 65, 65, 65>>
\* "ffd8ff": hex of FF D8 FF
JpegHex == <<102, 102, 100, 56, 102, 102>>
\* the characters U+00FF U+00D8 U+00FF: FF D8 FF when read as binary
JpegBinary == <<255, 216, 255>>

SniffPayloads ==
    {JpegBase64, PngBase64, GifBase64, BmpBase64, ShortJpegBase64, ShortPngBase64,
     ZeroBase64, JpegHex, JpegBinary}

\* '.', '/', ' ' and 't'
HintAlphabet == {46, 47, 32, 116}

\* no hint, the empty hint, and every short hint
AnyHints == {Null} \cup {Some(h) : h \in SeqsUpTo(HintAlphabet, MaxHint)}

ExtRequests ==
    [data : SniffPayloads, encoding : {"base64", "hex", "binary"}, fieldname : {"file1"},
     fileExtension : AnyHints, bytes : {Null}]

InitExt ==
    /\ now = 0
    /\ files = NoFiles
    /\ outcomes = <<>>
    /\ RemoteIdle
    /\ client \in {Some(q) : q \in ExtRequests}

NextExt == Submit

\* one call of processEncodedData, on every request of ExtRequests
SpecExt == InitExt /\ [][NextExt]_vars

----------------------------------------------------------------------------
(* The router: processMultipartEncodedData and the routes that call it.    *)
(* A request body is the sequence of its text fields, in the order of      *)
(* Object.keys, and req.files is the sequence of its file parts.            *)

\* keys that start with 'file' and do not end in '_ext'
PayloadKeys == {"file1", "file2", "file/a", "file/../x", "file/../../x"}

\* the keys of the bodies of the model
BodyKeys == PayloadKeys \cup {"file1_ext", "note"}

\* every key of a request that starts with 'file' and is no extension hint
FileKeys == PayloadKeys \cup {"file2/../x"}

\* key.startsWith('file')
StartsWithFile(key) == key \in FileKeys \cup {k \o "_ext" : k \in FileKeys}

\* key.endsWith('_ext')
EndsWithExt(key) == key \in {k \o "_ext" : k \in BodyKeys}

\* req.body[key]: Null when the body has no such key
Lookup(body, key) ==
    IF \E k \in 1..Len(body) : body[k].key = key
    THEN Some(body[CHOOSE k \in 1..Len(body) : body[k].key = key].value)
    ELSE Null

\* the filter of the keys of the body
IsFileField(key) == StartsWithFile(key) /\ ~EndsWithExt(key) /\ key # "encoding"

\* Object.keys(req.body).filter(...)
FileFields(body) == SelectSeq([k \in 1..Len(body) |-> body[k].key], IsFileField)

\* req.body[`${field}_ext`] || null
ExtensionOf(body, field) ==
    LET v == Lookup(body, field \o "_ext") IN IF Truthy(v) THEN v ELSE Null

RECURSIVE ForEachFieldStopsAtFailure(_, _, _, _, _, _)
\* a loop over the fields that ends at the first field that fails
ForEachFieldStopsAtFailure(fsys, t, body, encoding, fields, ios) ==
    IF fields = <<>> THEN [files |-> fsys, entries |-> <<>>]
    ELSE LET field == Head(fields)
             encodedData == Lookup(body, field)[1]
             fileExtension == ExtensionOf(body, field)
             r == ProcessEncodedData(fsys, t, encodedData, encoding, field,
                                     fileExtension, ios[field])
             rest == IF r.result.success
                     THEN ForEachFieldStopsAtFailure(r.files, t, body, encoding,
                                                     Tail(fields), ios)
                     ELSE [files |-> r.files, entries |-> <<>>]
         IN  IF encodedData = <<>>
             THEN ForEachFieldStopsAtFailure(fsys, t, body, encoding, Tail(fields), ios)
             ELSE [files |-> rest.files,
                   entries |-> <<Entry(t, encodedData, encoding, field, fileExtension,
                                       ios[field], r)>> \o rest.entries]

RECURSIVE ForEachField(_, _, _, _, _, _)

\* results.push(result), and the fields after it
PushResult(entry, rest) ==
    [files |-> rest.files, entries |-> <<entry>> \o rest.entries]

\* the rest of the loop after the call of the first field has returned r
AfterField(t, body, encoding, fields, ios, r) ==
    PushResult(Entry(t, Lookup(body, Head(fields))[1], encoding, Head(fields),
                     ExtensionOf(body, Head(fields)), ios[Head(fields)], r),
               ForEachField(r.files, t, body, encoding, Tail(fields), ios))

\* fileFields.forEach(field => ...): a field with an empty value is skipped,
\* every other one is processed and its result pushed; ios[field] is how the
\* write of the field ends
ForEachField(fsys, t, body, encoding, fields, ios) ==
    IF fields = <<>> THEN [files |-> fsys, entries |-> <<>>]
    ELSE IF Lookup(body, Head(fields))[1] = <<>>
        THEN ForEachField(fsys, t, body, encoding, Tail(fields), ios)
    ELSE AfterField(t, body, encoding, fields, ios,
                    ProcessEncodedData(fsys, t, Lookup(body, Head(fields))[1], encoding,
                                       Head(fields), ExtensionOf(body, Head(fields)),
                                       ios[Head(fields)]))

\* the results array of the entries of a request
ResultsOf(entries) == [k \in 1..Len(entries) |-> entries[k].result]

\* path.extname(name) of a name without '/': from the last '.' on, and
\* nothing when there is no '.' or when the only '.' is the first character
ExtName(name) ==
    LET dots == {i \in 1..Len(name) : name[i] = 46}
        last == CHOOSE d \in dots : \A e \in dots : e <= d
    IN  IF dots = {} \/ dots = {1} THEN <<>> ELSE SubSeq(name, last, Len(name))

\* path.extname(file.originalname || '.bin')
PartExt(file) == ExtName(IF file.originalname = <<>> THEN ExtBin ELSE file.originalname)

\* the record pushed for an uploaded file part
PartResult(file, filepath) ==
    [fieldname |-> file.fieldname, originalname |-> file.originalname,
     encoding |-> "multipart", size |-> Len(file.buffer), path |-> filepath,
     success |-> TRUE]

RECURSIVE ForEachFile(_, _, _, _)
\* req.files.forEach(file => ...): each part is written under its own name
\* outside any try, so the error of a write that fails leaves the loop and
\* the function
ForEachFile(fsys, t, parts, ios) ==
    IF parts = <<>> THEN [files |-> fsys, results |-> <<>>, threw |-> FALSE]
    ELSE LET file == Head(parts)
             filepath == PathJoin(UPLOAD_DIR,
                                  Filename(t, file.fieldname, "multipart", PartExt(file)))
             wio == WriteOutcome(filepath, ios[file.fieldname])
             rest == ForEachFile(WriteFileSync(fsys, filepath, file.buffer, wio),
                                 t, Tail(parts), ios)
         IN  IF wio # "ok" THEN [files |-> fsys, results |-> <<>>, threw |-> TRUE]
             ELSE [files |-> rest.files,
                   results |-> <<PartResult(file, filepath)>> \o rest.results,
                   threw |-> rest.threw]

\* the results of the file parts followed by those of the payload fields
AllResults(partResults, e) ==
    [files |-> e.files, entries |-> e.entries,
     results |-> partResults \o ResultsOf(e.entries), threw |-> FALSE]

\* the payload fields, after the file parts have ended as f says
AfterFiles(f, t, body, encoding, ios) ==
    IF f.threw
    THEN [files |-> f.files, entries |-> <<>>, results |-> <<>>, threw |-> TRUE]
    ELSE AllResults(f.results,
                    ForEachField(f.files, t, body, encoding, FileFields(body), ios))

\* processMultipartEncodedData(req, encoding): the file parts first, then the
\* payload fields; threw says that an error left the function
ProcessMultipartEncodedData(fsys, t, parts, body, encoding, ios) ==
    AfterFiles(ForEachFile(fsys, t, parts, ios), t, body, encoding, ios)

\* the route with a fixed encoding, and the universal one
Routes == {"/upload-hex", "/upload-encoded"}

\* the route of the encoding e: app.post('/upload-<e>', ...)
FixedRoute(e) == "/upload-" \o e

\* fixed routes that all decode as hex
FixedEncodingAlwaysHex(route) == "hex"

\* the encoding a fixed route passes to processMultipartEncodedData
FixedEncoding(route) == CHOOSE e \in SupportedEncodings : route = FixedRoute(e)

\* a handler that takes the encoding from the request on every route
RouteEncodingFromBody(req) ==
    IF req.encoding # Null /\ req.encoding[1] # "" THEN req.encoding[1] ELSE "utf8"

\* the encoding of a request: that of the route, or req.body.encoding || 'utf8'
RouteEncoding(req) ==
    IF req.route # "/upload-encoded" THEN FixedEncoding(req.route)
    ELSE IF req.encoding # Null /\ req.encoding[1] # "" THEN req.encoding[1] ELSE "utf8"

\* a universal route that looks at the payload fields only
IsRejectedWithoutFields(req) ==
    req.route = "/upload-encoded" /\ FileFields(req.body) = <<>>

\* the universal route answers 400 to a request that has neither payload
\* fields nor file parts
IsRejected(req) ==
    req.route = "/upload-encoded" /\ FileFields(req.body) = <<>> /\ req.parts = <<>>

\* the values of the fields: '', "48656c6c6f" and "zz"
FieldValues == {<<>>, HelloHex, NotHex}

\* the bodies: up to MaxFields fields with different keys
Bodies ==
    {b \in SeqsUpTo([key : BodyKeys, value : FieldValues], MaxFields) :
        \A j, k \in 1..Len(b) : j # k => b[j].key # b[k].key}

\* the requests: req.body.encoding is absent, 'hex' or 'rot13'
RouterRequests ==
    [route : {"/upload-hex"}, encoding : {Null}, body : Bodies, parts : {<<>>},
     response : {Null}]
        \cup [route : {"/upload-encoded"}, encoding : {Null, Some("hex"), Some("rot13")},
              body : Bodies, parts : {<<>>}, response : {Null}]

\* the field names of the file parts of a request
PartNames(parts) == {parts[k].fieldname : k \in 1..Len(parts)}

\* res.json(...) after processMultipartEncodedData has returned r; an error
\* that leaves the handler is answered by the default error handler of
\* Express with status 500 and no JSON body
Accepted(r) ==
    [status |-> IF r.threw THEN 500 ELSE 200, files |-> r.files,
     entries |-> r.entries, results |-> r.results]

\* the handler of a route, from the request to the response
Handle(fsys, t, req, ios) ==
    IF IsRejected(req)
    THEN [status |-> 400, files |-> fsys, entries |-> <<>>, results |-> <<>>]
    ELSE Accepted(ProcessMultipartEncodedData(fsys, t, req.parts, req.body,
                                              RouteEncoding(req), ios))

\* the state after the handler has handled req as r says
Respond(req, ios, r) ==
    /\ files' = r.files
    /\ outcomes' = outcomes \o r.entries
    /\ client' = Some([req EXCEPT !.response =
                          Some([status |-> r.status, files |-> r.results, ios |-> ios])])
    /\ UNCHANGED <<now, remote>>

\* a request is handled
Upload ==
    /\ client # Null
    /\ client[1].response = Null
    /\ \E ios \in [{k \in FileKeys : Lookup(client[1].body, k) # Null}
                      \cup PartNames(client[1].parts) -> IoResults] :
          Respond(client[1], ios, Handle(files, now, client[1], ios))

InitRouter ==
    /\ now = 0
    /\ files = NoFiles
    /\ outcomes = <<>>
    /\ RemoteIdle
    /\ client \in {Some(q) : q \in RouterRequests}

NextRouter == Upload

\* one request to a route of the multipart server
SpecRouter == InitRouter /\ [][NextRouter]_vars

----------------------------------------------------------------------------
(* Requests with uploaded file parts beside the text fields *)

\* the most file parts of a request
MaxParts == 1

\* "a.txt"
NameATxt == <<97, 46, 116, 120, 116>>

\* the file parts: field "doc" or "file/a", with the name a.txt or without a name
PartSet == [fieldname : {"doc", "file/a"}, originalname : {NameATxt, <<>>}, buffer : {<<1, 2>>}]

\* the bodies of these requests
PartBodies ==
    {b \in SeqsUpTo([key : {"file1", "file2", "note"}, value : FieldValues], MaxFields) :
        \A j, k \in 1..Len(b) : j # k => b[j].key # b[k].key}

PartRequests ==
    [route : Routes, encoding : {Null}, body : PartBodies,
     parts : SeqsUpTo(PartSet, MaxParts), response : {Null}]

InitParts ==
    /\ now = 0
    /\ files = NoFiles
    /\ outcomes = <<>>
    /\ RemoteIdle
    /\ client \in {Some(q) : q \in PartRequests}

NextParts == Upload

\* one request with text fields and file parts to a route of the multipart server
SpecParts == InitParts /\ [][NextParts]_vars

----------------------------------------------------------------------------
(* Requests whose fields are named alike *)

\* the bodies: payload fields with plain names and with names that leave
\* the directory their first component names
SiblingBodies ==
    {b \in SeqsUpTo([key : {"file1", "file2", "file/../x", "file2/../x"},
                     value : {HelloHex, HexAndBase64}], MaxFields) :
        \A j, k \in 1..Len(b) : j # k => b[j].key # b[k].key}

SiblingRequests ==
    [route : Routes, encoding : {Null, Some("hex")}, body : SiblingBodies,
     parts : {<<>>}, response : {Null}]

InitSiblings ==
    /\ now = 0
    /\ files = NoFiles
    /\ outcomes = <<>>
    /\ RemoteIdle
    /\ client \in {Some(q) : q \in SiblingRequests}

NextSiblings == Upload

\* one request with several payload fields to a route of the multipart server
SpecSiblings == InitSiblings /\ [][NextSiblings]_vars

----------------------------------------------------------------------------
(* The requests of the test client to every route *)

\* the seven fixed routes and the universal one
AllRoutes == {FixedRoute(e) : e \in SupportedEncodings} \cup {"/upload-encoded"}

\* req.body.encoding: absent, empty, one of the seven names or another name
EncodingFields == {Null, Some("")} \cup {Some(e) : e \in SupportedEncodings \cup {"rot13"}}

\* "json"
HintJson == <<106, 115, 111, 110>>

\* "_second_file"
SecondFile == <<95, 115, 101, 99, 111, 110, 100, 95, 102, 105, 108, 101>>

\* the form of testEncoding and testUniversalEncoding for the string data
ClientBody(data) ==
    << [key |-> "file1", value |-> data], [key |-> "file1_ext", value |-> HintTxt],
       [key |-> "file2", value |-> data \o SecondFile],
       [key |-> "file2_ext", value |-> HintJson],
       [key |-> "metadata", value |-> Hello] >>

\* the strings the client sends
ClientData == {Hello, HelloHex, HelloBase64, NotHex}

RouteRequests ==
    [route : AllRoutes, encoding : EncodingFields,
     body : {ClientBody(d) : d \in ClientData}, parts : {<<>>}, response : {Null}]

InitRoutes ==
    /\ now = 0
    /\ files = NoFiles
    /\ outcomes = <<>>
    /\ RemoteIdle
    /\ client \in {Some(q) : q \in RouteRequests}

NextRoutes == Upload

\* one request of the test client to one of the eight routes
SpecRoutes == InitRoutes /\ [][NextRoutes]_vars

----------------------------------------------------------------------------
(* The server with remote uploads: processEncodedData is asynchronous.  It  *)
(* decodes and writes as the urlencoded server does, then forwards the     *)
(* file to the enabled destinations, waiting for each; a route starts the  *)
(* calls of all its fields and answers when all of them have returned.     *)
(* A step of the model is what runs between two awaits of network I/O.     *)

\* a list that tries ftp first
DestinationsFtpFirst == <<"ftp", "s3", "http">>

\* the destinations, in the order processEncodedData tries them
Destinations == <<"s3", "ftp", "http">>

\* REMOTE_UPLOAD_CONFIG.destinations[d].enabled
DestinationEnabled(cfg, d) ==
    CASE d = "s3" -> cfg.s3
      [] d = "ftp" -> cfg.ftp
      [] d = "http" -> cfg.http

\* the record returned from the try block
SuccessResultRemote(local, remoteUploads) ==
    [fieldname |-> local.fieldname, encoding |-> local.encoding, size |-> local.size,
     path |-> local.path, success |-> TRUE, remoteUploads |-> remoteUploads]

\* the entry pushed to remoteUploads: the destination and what the uploader
\* returned, which has success true or, from its catch block, success false
RemoteUpload(d, ok) == [destination |-> d, success |-> ok]

\* the call goes on at destination number from: it starts the upload to the
\* first destination from there on whose flag is set now and waits for it
\* (pc is its number), or it returns (pc is 0)
RunOn(call, cfg, from) ==
    LET open == {k \in from..Len(Destinations) : DestinationEnabled(cfg, Destinations[k])}
        first == CHOOSE k \in open : \A j \in open : k <= j
    IN  IF open = {}
        THEN [call EXCEPT !.pc = 0,
                          !.result = Some(SuccessResultRemote(call.local, call.remoteUploads))]
        ELSE [call EXCEPT !.pc = first]

\* the call after its write: it has returned a Failure, or a Success without
\* uploads when the global flag is off, or it goes on to the destinations
Forward(call, cfg) ==
    IF ~call.local.success THEN [call EXCEPT !.result = Some(call.local)]
    ELSE IF ~cfg.enabled
        THEN [call EXCEPT !.result = Some(SuccessResultRemote(call.local, <<>>))]
    ELSE RunOn(call, cfg, 1)

\* the call whose decoding and write ended as r says, with what it did on
\* the way and the flags it was started with
AfterWrite(t, cfg, data, encoding, fieldname, fileExtension, io, r) ==
    [files |-> r.files,
     call |-> Forward([at |-> t, data |-> data, encoding |-> encoding,
                       fieldname |-> fieldname, fileExtension |-> fileExtension,
                       io |-> io, decodedData |-> r.decodedData, writes |-> r.writes,
                       local |-> r.result, started |-> cfg, pc |-> 0,
                       remoteUploads |-> <<>>, result |-> Null], cfg)]

\* processEncodedData(data, encoding, fieldname, fileExtension) up to its
\* first await or, if there is none, to its return: the file system it
\* leaves and the call
StartCall(fsys, t, cfg, data, encoding, fieldname, fileExtension, io) ==
    AfterWrite(t, cfg, data, encoding, fieldname, fileExtension, io,
               ProcessEncodedDataUnchecked(fsys, t, data, encoding, fieldname,
                                           fileExtension, io))

RECURSIVE StartAll(_, _, _, _, _, _, _)

\* the call of the first field in front of those of the others
WithCall(call, rest) == [files |-> rest.files, calls |-> <<call>> \o rest.calls]

\* the calls of the other fields, after the first one has started as s says
StartRest(s, t, cfg, body, encoding, fields, ios) ==
    WithCall(s.call, StartAll(s.files, t, cfg, body, encoding, Tail(fields), ios))

\* fields.map(async field => await processEncodedData(...)): the calls of
\* the fields are started one after the other, each running to its first await
StartAll(fsys, t, cfg, body, encoding, fields, ios) ==
    IF fields = <<>> THEN [files |-> fsys, calls |-> <<>>]
    ELSE StartRest(StartCall(fsys, t, cfg, Lookup(body, Head(fields))[1], encoding,
                             Head(fields), ExtensionOf(body, Head(fields)),
                             ios[Head(fields)]),
                   t, cfg, body, encoding, fields, ios)

\* a handler that answers as soon as one of its calls has returned
PromiseAny(calls) == calls = <<>> \/ \E k \in 1..Len(calls) : calls[k].pc = 0

\* await Promise.all(...): every call has returned
PromiseAll(calls) == \A k \in 1..Len(calls) : calls[k].pc = 0

\* the log entry of a call that has returned
RemoteEntry(call) == [call EXCEPT !.result = call.result[1]]

\* the values Promise.all resolves to, in the order of the fields
SavedFiles(calls) ==
    LET returned == SelectSeq(calls, LAMBDA c : c.result # Null)
    IN  [k \in 1..Len(returned) |-> returned[k].result[1]]

\* res.json(...) once the calls have returned
Answer(req, calls) ==
    IF req.response = Null /\ PromiseAll(calls)
    THEN Some([req EXCEPT !.response =
                  Some([status |-> 200, files |-> SavedFiles(calls)])])
    ELSE Some(req)

\* the log entries of the calls that have returned
ReturnedEntries(calls) ==
    [k \in 1..Len(SelectSeq(calls, LAMBDA c : c.pc = 0)) |->
        RemoteEntry(SelectSeq(calls, LAMBDA c : c.pc = 0)[k])]

\* the state after the handler has started the calls of req as s says
Began(req, s) ==
    /\ files' = s.files
    /\ inflight' = s.calls
    /\ outcomes' = outcomes \o ReturnedEntries(s.calls)
    /\ client' = Answer(req, s.calls)

\* a route of the server with remote uploads is posted a form: the handler
\* runs until every call waits for a destination or has returned
UploadRemote ==
    /\ client # Null
    /\ client[1].response = Null
    /\ inflight = <<>>
    /\ \E ios \in [{k \in FileKeys : Lookup(client[1].body, k) # Null} -> IoResults] :
          IF client[1].route = "/upload-encoded" /\ FileFields(client[1].body) = <<>>
          THEN /\ client' = Some([client[1] EXCEPT !.response =
                                     Some([status |-> 400, files |-> <<>>])])
               /\ UNCHANGED <<files, outcomes, inflight>>
          ELSE Began(client[1],
                     StartAll(files, now, config, client[1].body,
                              RouteEncoding(client[1]), FileFields(client[1].body), ios))
    /\ UNCHANGED <<now, config>>

\* the state after call i has gone on as next says
Resumed(i, next) ==
    /\ inflight' = [inflight EXCEPT ![i] = next]
    /\ outcomes' = IF next.pc = 0 THEN Append(outcomes, RemoteEntry(next)) ELSE outcomes
    /\ client' = Answer(client[1], [inflight EXCEPT ![i] = next])

\* the upload a call waits for ends, well or not: the call records it and
\* goes on to the next destination or returns; the handler answers if this
\* was the last call to return
RemoteReturns ==
    /\ client # Null
    /\ \E i \in 1..Len(inflight), ok \in BOOLEAN :
          /\ inflight[i].pc # 0
          /\ Resumed(i, RunOn([inflight[i] EXCEPT !.remoteUploads =
                                   Append(@, RemoteUpload(Destinations[inflight[i].pc], ok))],
                              config, inflight[i].pc + 1))
    /\ UNCHANGED <<now, files, config>>

\* the values of a flag in the body of a configuration request
FlagUpdates == {Null, Some(TRUE), Some(FALSE)}

\* enabled !== undefined ? enabled : the old value; Object.assign likewise
Assigned(old, update) == IF update # Null THEN update[1] ELSE old

\* POST /config/remote-upload with a body that sets one flag, while a call
\* waits for a destination.  A body that sets several flags acts as a run of
\* these, since nothing runs in between; the flags a request finds are those
\* of InitRemote, and no one reads them after the answer.
ConfigUpdate ==
    /\ \E i \in 1..Len(inflight) : inflight[i].pc # 0
    /\ \E flag \in DOMAIN config, update \in FlagUpdates :
          LET body == [f \in DOMAIN config |-> IF f = flag THEN update ELSE Null]
          IN  config' = [enabled |-> Assigned(config.enabled, body.enabled),
                         s3 |-> Assigned(config.s3, body.s3),
                         ftp |-> Assigned(config.ftp, body.ftp),
                         http |-> Assigned(config.http, body.http)]
    /\ UNCHANGED <<now, files, outcomes, client, inflight>>

\* the forms posted to that server: the form of the test client, and a form
\* without file fields
RemoteBodies == {ClientBody(HelloHex), <<[key |-> "metadata", value |-> Hello]>>}

RemoteRequests ==
    [route : {"/upload-hex"}, encoding : {Null}, body : RemoteBodies, parts : {<<>>},
     response : {Null}]
        \cup [route : {"/upload-encoded"}, encoding : {Null, Some("rot13")},
              body : RemoteBodies, parts : {<<>>}, response : {Null}]

\* the flags come from the environment of the server
InitRemote ==
    /\ now = 0
    /\ files = NoFiles
    /\ outcomes = <<>>
    /\ client \in {Some(q) : q \in RemoteRequests}
    /\ config \in ConfigValues
    /\ inflight = <<>>

NextRemote == UploadRemote \/ RemoteReturns \/ ConfigUpdate

\* one request to the server with remote uploads, while its configuration
\* is updated
SpecRemote == InitRemote /\ [][NextRemote]_vars

----------------------------------------------------------------------------
(* Calls with any argument: payloads that are no strings, unknown          *)
(* encodings, field names that name a directory that does not exist        *)

AnyPayloads ==
    SeqsUpTo(Alphabet, 2)
        \cup {NotAString, HelloHex, NotHex, OddHex, HelloBase64, HelloBase64NoPad, JpegBase64}

AnyRequests ==
    [data : AnyPayloads, encoding : Encodings, fieldname : {"file1", "file/a"},
     fileExtension : Hints, bytes : {Null}]

InitAny ==
    /\ now = 0
    /\ files = NoFiles
    /\ outcomes = <<>>
    /\ RemoteIdle
    /\ client \in {Some(q) : q \in AnyRequests}

NextAny == Submit

\* one call of processEncodedData, on every request of AnyRequests
SpecAny == InitAny /\ [][NextAny]_vars

----------------------------------------------------------------------------
(* What the claims read off the log *)

Calls == 1..Len(outcomes)
Succeeded(i) == outcomes[i].result.success
PathOf(i) == outcomes[i].result.path

\* the call just made, in an action
Returned == Len(outcomes') = Len(outcomes) + 1
LastResult == outcomes'[Len(outcomes')].result

\* the error a failed call reports for a message of the engine
ErrorOf(i, message) ==
    /\ ~Succeeded(i)
    /\ outcomes[i].result.error = "Failed to process " \o outcomes[i].encoding \o " data: " \o message

----------------------------------------------------------------------------
(* C1 *)

LastWriter(p) ==
    CHOOSE j \in Calls :
        /\ Succeeded(j) /\ PathOf(j) = p
        /\ \A k \in Calls : (Succeeded(k) /\ PathOf(k) = p) => k <= j

----------------------------------------------------------------------------
(* C2 *)

----------------------------------------------------------------------------
(* C3 *)

\* what a rejected encoding looks like: the unsupported-encoding failure, no
\* call of Buffer.from, no write, no file
RejectedAsUnsupported(i) ==
    /\ ErrorOf(i, "Unsupported encoding: " \o outcomes[i].encoding)
    /\ outcomes[i].bufferCalls = 0
    /\ outcomes[i].writes = 0
    /\ files = NoFiles

\* C3 as stated: every encoding value outside the seven documented names is
\* rejected as unsupported before any decoding, and no file is written.
C3_OutsideTheSevenRejected ==
    \A i \in Calls :
        outcomes[i].encoding \notin SupportedEncodings => RejectedAsUnsupported(i)

\* C3, amended: every encoding value outside the seven documented names and
\* the alias "utf-8" is rejected as unsupported before any decoding, and no
\* file is written; "utf-8" is decoded as utf8.
C3_UnknownEncodingRejected ==
    \A i \in Calls :
        /\ outcomes[i].encoding \notin (SupportedEncodings \cup {"utf-8"}) =>
              RejectedAsUnsupported(i)
        /\ outcomes[i].encoding = "utf-8" =>
              /\ outcomes[i].bufferCalls = 1
              /\ (outcomes[i].data # <<>> /\ outcomes[i].io = "ok") => Succeeded(i)

\* "rot13" was rejected for a payload every decoder accepts
C3_Rot13Rejected ==
    \E i \in Calls :
        /\ outcomes[i].encoding = "rot13"
        /\ outcomes[i].data = HelloHex
        /\ outcomes[i].io = "ok"
        /\ ~Succeeded(i)

----------------------------------------------------------------------------
(* C4 *)

\* C4: for every supported encoding the empty string yields Failure with the
\* reason empty-payload.
C4_EmptyStringIsEmptyPayload ==
    \A i \in Calls :
        (outcomes[i].data = <<>> /\ outcomes[i].encoding \in SupportedEncodings) =>
            ErrorOf(i, "Decoded data is empty")

----------------------------------------------------------------------------
(* C7 *)

\* C7: every hex payload that yields Success has even length, and its
\* decoded length is half the payload length.
C7_HexSuccessHasEvenLength ==
    \A i \in Calls :
        (outcomes[i].encoding = "hex" /\ Succeeded(i)) =>
            /\ Len(outcomes[i].data) % 2 = 0
            /\ 2 * outcomes[i].result.size = Len(outcomes[i].data)

----------------------------------------------------------------------------
(* C8 *)

\* whitespace, as the claim means it
C8_IsSpace(c) ==
    c \in (9..13) \cup {32, 160, 5760, 8232, 8233, 8239, 8287, 12288, 65279} \cup (8192..8202)

\* the payload without its whitespace
C8_Rest(data) == SelectSeq(data, LAMBDA c : ~C8_IsSpace(c))

RECURSIVE C8_Pads(_)
\* the number of '=' at the end
C8_Pads(rest) ==
    IF rest = <<>> \/ rest[Len(rest)] # 61 THEN 0 ELSE 1 + C8_Pads(SubSeq(rest, 1, Len(rest) - 1))

\* standard-alphabet characters followed by at most two '='
C8_WellFormed(rest) ==
    /\ C8_Pads(rest) <= 2
    /\ \A k \in 1..(Len(rest) - C8_Pads(rest)) :
          rest[k] \in (65..90) \cup (97..122) \cup (48..57) \cup {43, 47}

\* C8: for base64 the whitespace is removed first; a remainder outside
\* ^[A-Za-z0-9+/]*={0,2}$ fails as invalid-base64-format, a well-formed
\* remainder whose length is no multiple of 4 fails as invalid-base64-length,
\* anything else is decoded (three bytes per four characters, less the
\* padding), "SGVsbG8=" to "Hello", and a payload with whitespace to the
\* bytes of the same payload without it.
C8_Base64Validation ==
    \A i \in Calls :
        outcomes[i].encoding = "base64" =>
            LET rest == C8_Rest(outcomes[i].data)
            IN  IF ~C8_WellFormed(rest)
                THEN ErrorOf(i, "Invalid base64 format") /\ outcomes[i].writes = 0
                ELSE IF Len(rest) % 4 # 0
                THEN ErrorOf(i, "Invalid base64 string length") /\ outcomes[i].writes = 0
                ELSE /\ outcomes[i].bufferCalls = 1
                     /\ Len(outcomes[i].decodedData) = 3 * (Len(rest) \div 4) - C8_Pads(rest)
                     /\ outcomes[i].decodedData = DecodeSwitch(rest, "base64").decodedData
                     /\ rest = HelloBase64 => outcomes[i].decodedData = Hello
                     /\ (rest # <<>> /\ outcomes[i].io = "ok") =>
                            /\ Succeeded(i)
                            /\ files[PathOf(i)] = outcomes[i].decodedData

\* "SGVs bG8\n=" was stored as "Hello"
C8_SpacedHelloStored ==
    \E i \in Calls :
        /\ outcomes[i].encoding = "base64"
        /\ outcomes[i].data = HelloBase64Spaced
        /\ Succeeded(i)
        /\ files[PathOf(i)] = Hello

----------------------------------------------------------------------------
(* C9 *)

\* a payload in the URL-safe alphabet that uses '-' or '_', of a length that
\* is a multiple of 4
C9_IsUrlSafe(data) ==
    /\ data # <<>>
    /\ Len(data) % 4 = 0
    /\ \A k \in 1..Len(data) :
          data[k] \in (65..90) \cup (97..122) \cup (48..57) \cup {45, 95}
    /\ \E k \in 1..Len(data) : data[k] \in {45, 95}

\* C9: a base64 payload written in the URL-safe alphabet is decoded to
\* Success (by the retry with '-' and '_' replaced).
C9_UrlSafeDecoded ==
    \A i \in Calls :
        (outcomes[i].encoding = "base64" /\ outcomes[i].io = "ok"
            /\ C9_IsUrlSafe(outcomes[i].data)) => Succeeded(i)


----------------------------------------------------------------------------
(* C5 *)

\* C5: no zero-length file is ever persisted: every Success outcome has
\* size >= 1, no stored file is empty, and a decode that yields zero bytes
\* (whitespace-only base64, a single hex digit) is a Failure with the reason
\* empty-payload.
C5_NoZeroLengthFile ==
    /\ \A p \in DOMAIN files : Len(files[p]) >= 1
    /\ \A i \in Calls :
          /\ Succeeded(i) => outcomes[i].result.size >= 1
          /\ (outcomes[i].encoding = "base64" /\ outcomes[i].data = <<32, 32>>) =>
                ErrorOf(i, "Decoded data is empty")
          /\ (outcomes[i].encoding = "hex" /\ outcomes[i].data = <<97>>) =>
                ErrorOf(i, "Decoded data is empty")

----------------------------------------------------------------------------
(* C6 *)

\* ^[0-9a-fA-F]+$
C6_IsHex(data) ==
    /\ data # <<>>
    /\ \A k \in 1..Len(data) : data[k] \in (48..57) \cup (65..70) \cup (97..102)

\* C6: for hex, a payload that does not match ^[0-9a-fA-F]+$ (such as "zz")
\* yields Failure invalid-hex and no file; "48656c6c6f" yields Success with
\* the 5 bytes of "Hello".
C6_HexValidated ==
    \A i \in Calls :
        outcomes[i].encoding = "hex" =>
            /\ ~C6_IsHex(outcomes[i].data) =>
                  /\ ErrorOf(i, "Invalid hexadecimal string")
                  /\ outcomes[i].writes = 0
                  /\ files = NoFiles
            /\ (outcomes[i].data = HelloHex /\ outcomes[i].io = "ok") =>
                  /\ Succeeded(i)
                  /\ outcomes[i].result.size = 5
                  /\ files[PathOf(i)] = Hello


----------------------------------------------------------------------------
(* C10 *)

RECURSIVE C10_IsUtf8(_)
\* well-formed UTF-8
C10_IsUtf8(b) ==
    \/ b = <<>>
    \/ b[1] < 128 /\ C10_IsUtf8(Tail(b))
    \/ /\ Len(b) >= 2 /\ b[1] \in 194..223 /\ b[2] \in 128..191
       /\ C10_IsUtf8(SubSeq(b, 3, Len(b)))
    \/ /\ Len(b) >= 3 /\ b[1] \in 224..239 /\ b[2] \in 128..191 /\ b[3] \in 128..191
       /\ (b[1] = 224 => b[2] >= 160) /\ (b[1] = 237 => b[2] <= 159)
       /\ C10_IsUtf8(SubSeq(b, 4, Len(b)))
    \/ /\ Len(b) >= 4 /\ b[1] \in 240..244
       /\ b[2] \in 128..191 /\ b[3] \in 128..191 /\ b[4] \in 128..191
       /\ (b[1] = 240 => b[2] >= 144) /\ (b[1] = 244 => b[2] <= 143)
       /\ C10_IsUtf8(SubSeq(b, 5, Len(b)))

\* the byte sequences an encoding can represent
C10_Representable(b, encoding) ==
    CASE encoding = "ascii" -> \A k \in 1..Len(b) : b[k] < 128
      [] encoding \in {"utf8", "utf-8"} -> C10_IsUtf8(b)
      [] encoding \in {"utf-16le", "ucs2"} -> Len(b) % 2 = 0
      [] OTHER -> TRUE

\* C10: for every supported encoding E and every non-empty byte sequence B
\* representable in E, decoding the text encode(B, E) under E gives exactly
\* B, and B is the content stored on Success.
C10_RoundTrip ==
    \A i \in Calls :
        (/\ client # Null
         /\ client[1].bytes # Null
         /\ client[1].bytes[1] # <<>>
         /\ C10_Representable(client[1].bytes[1], outcomes[i].encoding)) =>
            /\ outcomes[i].decodedData = client[1].bytes[1]
            /\ outcomes[i].io = "ok" =>
                  /\ Succeeded(i)
                  /\ outcomes[i].result.size = Len(client[1].bytes[1])
                  /\ files[PathOf(i)] = client[1].bytes[1]

\* a four-byte UTF-8 sequence (U+1F000) came back from its text, a surrogate pair
C10_AstralStored ==
    \E i \in Calls :
        /\ client # Null
        /\ client[1].bytes = Some(<<240, 159, 128, 128>>)
        /\ outcomes[i].encoding = "utf8"
        /\ outcomes[i].data = <<55356, 56320>>
        /\ Succeeded(i)
        /\ files[PathOf(i)] = <<240, 159, 128, 128>>


----------------------------------------------------------------------------
(* C11 *)

\* C11 as stated: binary gives one byte c mod 256 per payload character,
\* ascii gives one byte c mod 128 per payload character.
C11_AsciiMasksHighBit ==
    \A i \in Calls :
        /\ outcomes[i].encoding = "binary" =>
              outcomes[i].decodedData
                  = [k \in 1..Len(outcomes[i].data) |-> outcomes[i].data[k] % 256]
        /\ outcomes[i].encoding = "ascii" =>
              outcomes[i].decodedData
                  = [k \in 1..Len(outcomes[i].data) |-> outcomes[i].data[k] % 128]

\* C11, amended: for binary and for ascii alike every payload character c
\* gives exactly one byte, c mod 256 (ascii does not clear the high bit); no
\* character is rejected, so a non-empty payload whose write succeeds is
\* stored with as many bytes as it has characters.
C11_OneLowBytePerCharacter ==
    \A i \in Calls :
        outcomes[i].encoding \in {"binary", "ascii"} =>
            /\ outcomes[i].decodedData
                  = [k \in 1..Len(outcomes[i].data) |-> outcomes[i].data[k] % 256]
            /\ (outcomes[i].data # <<>> /\ outcomes[i].io = "ok") =>
                  /\ Succeeded(i)
                  /\ outcomes[i].result.size = Len(outcomes[i].data)
                  /\ files[PathOf(i)] = outcomes[i].decodedData

\* an ascii payload with U+00E9 in it was stored with the byte E9
C11_HighBitKept ==
    \E i \in Calls :
        /\ outcomes[i].encoding = "ascii"
        /\ outcomes[i].data = <<97, 233>>
        /\ Succeeded(i)
        /\ files[PathOf(i)] = <<97, 233>>


----------------------------------------------------------------------------
(* C12 *)

\* C12: for every payload, ucs2 and utf-16le give the same decoded bytes (two
\* per code unit, low byte first) and the same Success or Failure; the two
\* outcomes differ only in the encoding name and in the file name.
C12_Ucs2IsUtf16le ==
    \A i, j \in Calls :
        (/\ outcomes[i].encoding = "ucs2"
         /\ outcomes[j].encoding = "utf-16le"
         /\ outcomes[i].data = outcomes[j].data
         /\ outcomes[i].io = outcomes[j].io) =>
            /\ outcomes[i].decodedData = outcomes[j].decodedData
            /\ Len(outcomes[i].decodedData) = 2 * Len(outcomes[i].data)
            /\ \A k \in 1..Len(outcomes[i].data) :
                  /\ outcomes[i].decodedData[2 * k - 1] = outcomes[i].data[k] % 256
                  /\ outcomes[i].decodedData[2 * k] = outcomes[i].data[k] \div 256
            /\ Succeeded(i) = Succeeded(j)
            /\ Succeeded(i) =>
                  /\ outcomes[i].result.size = outcomes[j].result.size
                  /\ outcomes[i].result.originalSize = outcomes[j].result.originalSize
                  /\ files[PathOf(i)] = files[PathOf(j)]
                  /\ PathOf(i)[1] = PathOf(j)[1]
                  /\ PathOf(i)[2][1] = PathOf(j)[2][1]
                  /\ PathOf(i)[2][2] = PathOf(j)[2][2]
                  /\ PathOf(i)[2][4] = PathOf(j)[2][4]
            /\ ~Succeeded(i) =>
                  \E message \in {"Decoded data is empty", IoMessage(outcomes[i].io)} :
                      /\ ErrorOf(i, message)
                      /\ ErrorOf(j, message)

\* a payload with a surrogate pair and a lone surrogate was stored under both
\* names
C12_BothStored ==
    \E i, j \in Calls :
        /\ outcomes[i].encoding = "ucs2"
        /\ outcomes[j].encoding = "utf-16le"
        /\ outcomes[i].data = Astral
        /\ Succeeded(i) /\ Succeeded(j)
        /\ PathOf(i) # PathOf(j)
        /\ files[PathOf(i)] = <<61, 216, 0, 222, 61, 216>>


----------------------------------------------------------------------------
(* C13, C14, C15 *)

\* the extension in the name of the file of call i
ExtOf(i) == PathOf(i)[2][4]

\* the hint of call i is present: a non-empty string
HintGiven(i) == outcomes[i].fileExtension # Null /\ outcomes[i].fileExtension[1] # <<>>

\* [A-Za-z0-9.]
C13_Allowed(c) == c \in 48..57 \/ c \in 65..90 \/ c \in 97..122 \/ c = 46

\* C13: whenever a hint is present, the extension in the stored file name
\* begins with exactly one '.' and all its characters are in [A-Za-z0-9.].
C13_SingleLeadingDot ==
    \A i \in Calls :
        (Succeeded(i) /\ HintGiven(i)) =>
            /\ Len(ExtOf(i)) >= 1
            /\ ExtOf(i)[1] = 46
            /\ Len(ExtOf(i)) >= 2 => ExtOf(i)[2] # 46
            /\ \A k \in 1..Len(ExtOf(i)) : C13_Allowed(ExtOf(i)[k])

\* b starts with the bytes sig
C14_StartsWith(b, sig) == Len(b) >= Len(sig) /\ SubSeq(b, 1, Len(sig)) = sig

\* C14: with no hint and encoding base64 the extension is that of the first
\* signature the decoded bytes start with, in the order JPEG, PNG, GIF, BMP; a
\* buffer shorter than a signature does not match it; no match gives .bin.
C14_FirstSignatureWins ==
    \A i \in Calls :
        (Succeeded(i) /\ ~HintGiven(i) /\ outcomes[i].encoding = "base64") =>
            ExtOf(i) =
                IF C14_StartsWith(outcomes[i].decodedData, <<255, 216, 255>>) THEN ExtJpg
                ELSE IF C14_StartsWith(outcomes[i].decodedData, <<137, 80, 78, 71>>) THEN ExtPng
                ELSE IF C14_StartsWith(outcomes[i].decodedData, <<71, 73, 70>>) THEN ExtGif
                ELSE IF C14_StartsWith(outcomes[i].decodedData, <<66, 77>>) THEN ExtBmp
                ELSE ExtBin

\* the two bytes FF D8 were stored as .bin
C14_ShortJpegIsBin ==
    \E i \in Calls :
        /\ Succeeded(i) /\ ~HintGiven(i)
        /\ outcomes[i].encoding = "base64"
        /\ outcomes[i].decodedData = <<255, 216>>
        /\ ExtOf(i) = ExtBin

\* the hint h with a '.' in front unless it has one, without the characters
\* outside [A-Za-z0-9.]
C15_OfHint(h) == SelectSeq(IF h[1] = 46 THEN h ELSE <<46>> \o h, C13_Allowed)

\* C15: a present hint decides the extension whatever the decoded bytes are;
\* without a hint only base64 is sniffed, every other encoding gets .bin.
C15_HintThenSniffThenBin ==
    \A i \in Calls :
        Succeeded(i) =>
            /\ HintGiven(i) => ExtOf(i) = C15_OfHint(outcomes[i].fileExtension[1])
            /\ (~HintGiven(i) /\ outcomes[i].encoding # "base64") => ExtOf(i) = ExtBin

\* a base64 JPEG with the hint "t" was stored as .t
C15_HintBeatsSignature ==
    \E i \in Calls :
        /\ Succeeded(i)
        /\ outcomes[i].encoding = "base64"
        /\ outcomes[i].decodedData = <<255, 216, 255>>
        /\ outcomes[i].fileExtension = Some(<<116>>)
        /\ ExtOf(i) = <<46, 116>>


----------------------------------------------------------------------------
(* C16 *)

\* C16: every file written is a direct child of the upload directory and is
\* named <unixMillis>-<fieldName>-<encodingName><ext>, for every field name
\* the router accepts as a payload field.
C16_FlatAndNamedByPattern ==
    \A p \in DOMAIN files :
        /\ p[1] = UPLOAD_DIR
        /\ \E i \in Calls :
              /\ Succeeded(i)
              /\ PathOf(i) = p
              /\ p[2][1] = outcomes[i].at
              /\ p[2][2] = outcomes[i].fieldname
              /\ p[2][3] = outcomes[i].encoding

----------------------------------------------------------------------------
(* C19 *)

\* the response of the request, once the handler has answered
Answered == client # Null /\ client[1].response # Null
Response == client[1].response[1]

\* the payload fields of the request, in the order of the body
C19_PayloadFields ==
    SelectSeq([k \in 1..Len(client[1].body) |-> client[1].body[k].key],
              LAMBDA key : StartsWithFile(key) /\ ~EndsWithExt(key))

\* C19: the files list of a response has exactly one outcome record per
\* payload field of the request, fields with an empty value included, in the
\* order of the fields, each labelled with its field name.
C19_OneOutcomePerField ==
    (Answered /\ Response.status = 200) =>
        /\ Len(Response.files) = Len(C19_PayloadFields)
        /\ \A k \in 1..Len(Response.files) :
              Response.files[k].fieldname = C19_PayloadFields[k]

----------------------------------------------------------------------------
(* C20 *)

\* the body without its field k
C20_Without(body, k) == SubSeq(body, 1, k - 1) \o SubSeq(body, k + 1, Len(body))

\* the outcome of field f in a list of results
C20_ResultFor(results, f) ==
    SelectSeq(results, LAMBDA r : r.fieldname = f)

\* C20: a failing field does not change what happens to its siblings: each
\* sibling has the outcome and the stored bytes it has when the request is
\* sent without the failing field, wherever the failing field stands.
C20_SiblingsUnaffected ==
    (Answered /\ Response.status = 200) =>
        \A k \in 1..Len(client[1].body) :
            LET req == client[1]
                failing == req.body[k].key
                alone == ProcessMultipartEncodedData(NoFiles, now, req.parts,
                                                     C20_Without(req.body, k),
                                                     RouteEncoding(req), Response.ios)
            IN  (\E r \in 1..Len(Response.files) :
                    /\ Response.files[r].fieldname = failing
                    /\ ~Response.files[r].success) =>
                    /\ \A f \in PayloadKeys \ {failing} :
                          C20_ResultFor(Response.files, f)
                              = C20_ResultFor(ResultsOf(alone.entries), f)
                    /\ files = alone.files

\* a request whose first field failed and whose second field was stored
C20_FailedThenStored ==
    /\ Answered
    /\ Len(Response.files) = 2
    /\ ~Response.files[1].success
    /\ Response.files[2].success
    /\ Response.files[2].path \in DOMAIN files


----------------------------------------------------------------------------
(* C17 *)

\* C17: every call of processEncodedData returns exactly one outcome record,
\* whatever its arguments and the file system; a Failure record carries the
\* field name and the encoding of the call and a non-empty reason.
C17_AlwaysOneOutcome ==
    [][/\ Len(outcomes') = Len(outcomes) + 1
       /\ LET o == outcomes'[Len(outcomes')]
          IN  /\ o.data = client[1].data
              /\ o.result.success \in BOOLEAN
              /\ ~o.result.success =>
                    /\ DOMAIN o.result = {"fieldname", "encoding", "error", "success"}
                    /\ o.result.fieldname = client[1].fieldname
                    /\ o.result.encoding = client[1].encoding
                    /\ o.result.error # ""]_vars

\* a call whose Buffer.from threw a TypeError returned a Failure
C17_TypeErrorCaught ==
    \E i \in Calls :
        /\ outcomes[i].data = NotAString
        /\ outcomes[i].encoding = "binary"
        /\ outcomes[i].bufferCalls = 1
        /\ ErrorOf(i, BufferFromMessage)

----------------------------------------------------------------------------
(* C18 *)

\* C18: when the write of the file fails the call returns a Failure whose
\* reason contains the message of the I/O error, and the write is attempted
\* once: no call writes twice.
C18_WriteFailureReported ==
    \A i \in Calls :
        /\ outcomes[i].writes <= 1
        /\ (outcomes[i].writes = 1 /\ outcomes[i].io = "EACCES"
              /\ outcomes[i].fieldname = "file1") =>
              ErrorOf(i, "EACCES: permission denied, open")
        /\ (outcomes[i].writes = 1 /\ outcomes[i].fieldname = "file/a") =>
              ErrorOf(i, "ENOENT: no such file or directory, open")
        /\ (outcomes[i].writes = 1 /\ ~Succeeded(i)) => files = NoFiles

\* a write of decoded bytes failed for want of permission
C18_WriteFailed ==
    \E i \in Calls :
        /\ outcomes[i].writes = 1
        /\ ~Succeeded(i)
        /\ outcomes[i].io = "EACCES"
        /\ outcomes[i].data = HelloHex
        /\ outcomes[i].encoding = "hex"


----------------------------------------------------------------------------
(* C21 *)

\* the request that was answered
Request == client[1]

\* C21: the status of an upload response is other than 2xx only when a
\* request to the universal route has no payload field at all; a request with
\* at least one payload field is answered 2xx with the outcomes of its
\* fields, each with its success flag, even if every field failed.
C21_Non2xxOnlyWithoutPayloadFields ==
    Answered =>
        /\ Response.status \notin 200..299 =>
              Request.route = "/upload-encoded" /\ FileFields(Request.body) = <<>>
        /\ FileFields(Request.body) # <<>> =>
              /\ Response.status \in 200..299
              /\ \A k \in 1..Len(Response.files) : Response.files[k].success \in BOOLEAN

----------------------------------------------------------------------------
(* C22 *)

----------------------------------------------------------------------------
(* C23 *)

\* C23: on the universal route the engine is called with the encoding of the
\* encoding field of the request, and with utf8 when the field is absent or
\* empty; on a fixed route it is called with the encoding of the route,
\* whatever the encoding field says.
C23_EncodingSelected ==
    Answered =>
        \A i \in Calls :
            IF Request.route = "/upload-encoded"
            THEN IF Request.encoding \in {Null, Some("")}
                 THEN outcomes[i].encoding = "utf8"
                 ELSE outcomes[i].encoding = Request.encoding[1]
            ELSE Request.route = "/upload-" \o outcomes[i].encoding

\* /upload-hex was posted a form with encoding=base64 and called the engine
C23_FixedRouteIgnoresField ==
    /\ Answered
    /\ Request.route = "/upload-hex"
    /\ Request.encoding = Some("base64")
    /\ Len(outcomes) = 2
    /\ \A i \in Calls : outcomes[i].encoding = "hex"

----------------------------------------------------------------------------
(* C30 *)

\* C30: the checks of a base64 payload run in a fixed order, the format
\* first and the length second: a payload that, without its whitespace, has
\* a bad character and a length that is no multiple of 4 fails with the
\* invalid-base64-format reason, and the length reason is reported only for
\* payloads whose characters and padding are all valid.
C30_FormatBeforeLength ==
    \A i \in Calls :
        outcomes[i].encoding = "base64" =>
            LET rest == C8_Rest(outcomes[i].data)
            IN  /\ (~C8_WellFormed(rest) /\ Len(rest) % 4 # 0) =>
                      ErrorOf(i, "Invalid base64 format")
                /\ ErrorOf(i, "Invalid base64 string length") =>
                      C8_WellFormed(rest) /\ Len(rest) % 4 # 0

\* a base64 payload with a bad character and a bad length was rejected for
\* its format
C30_BothViolated ==
    \E i \in Calls :
        /\ outcomes[i].encoding = "base64"
        /\ ~C8_WellFormed(C8_Rest(outcomes[i].data))
        /\ Len(C8_Rest(outcomes[i].data)) % 4 # 0
        /\ ErrorOf(i, "Invalid base64 format")

----------------------------------------------------------------------------
(* C26 *)

\* C26: two calls with the same field name, encoding and extension in the
\* same millisecond can get the same stored path; both then return Success
\* and the file holds the bytes of the later one; calls made in different
\* milliseconds always get different stored paths.
C26_DifferentMillisecondsDifferentPaths ==
    \A i, j \in Calls :
        (i < j /\ Succeeded(i) /\ Succeeded(j)) =>
            /\ PathOf(i) = PathOf(j) =>
                  files[PathOf(i)] = outcomes[LastWriter(PathOf(i))].decodedData
            /\ outcomes[i].at # outcomes[j].at => PathOf(i) # PathOf(j)

----------------------------------------------------------------------------
(* C28 *)

\* C28: within one request, handled at one timestamp, two different payload
\* fields are never stored at the same path, so no field's file is
\* overwritten by a sibling field of the request.
C28_FieldToPathInjective ==
    Answered =>
        \A a, b \in 1..Len(Response.files) :
            (a # b /\ Response.files[a].success /\ Response.files[b].success) =>
                Response.files[a].path # Response.files[b].path

----------------------------------------------------------------------------
(* C27 *)

\* the request sent to the universal route instead, with encoding=e
C27_Universal(req, e) == [req EXCEPT !.route = "/upload-encoded", !.encoding = Some(e)]

\* C27: for each of the seven encodings E, the same file fields and
\* extension hints posted to /upload-E and to /upload-encoded with encoding=E
\* give the same sequence of outcomes of the fields (success flags, sizes,
\* stored bytes, extensions), and a field that is no file field, such as
\* metadata, has no outcome on either route.
C27_FixedEqualsUniversal ==
    Answered =>
        /\ \A k \in 1..Len(Response.files) : Response.files[k].fieldname # "metadata"
        /\ \A e \in SupportedEncodings :
              Request.route = "/upload-" \o e =>
                  LET u == Handle(NoFiles, now, C27_Universal(Request, e), Response.ios)
                  IN  /\ u.status = Response.status
                      /\ u.results = Response.files
                      /\ u.files = files
                      /\ \A k \in 1..Len(u.results) : u.results[k].encoding = e

\* /upload-base64 stored the first field of the form and refused the second
C27_Base64RouteAnswered ==
    /\ Answered
    /\ Request.route = "/upload-base64"
    /\ Len(Response.files) = 2
    /\ Response.files[1].success
    /\ ~Response.files[2].success

----------------------------------------------------------------------------
(* C24 *)

\* the destinations a call uploads to when the flags stay as cfg says
C24_Expected(cfg) ==
    IF cfg.enabled
    THEN SelectSeq(<<"s3", "ftp", "http">>, LAMBDA d : DestinationEnabled(cfg, d))
    ELSE <<>>

\* the destinations in the outcome of call i
C24_Forwarded(i) ==
    [k \in 1..Len(outcomes[i].result.remoteUploads) |->
        outcomes[i].result.remoteUploads[k].destination]

\* C24: concurrent calls share no mutable state: whatever runs while a call
\* is in flight, other calls and configuration updates included, the outcome
\* of the call depends on its own arguments, the time and the file system
\* only; so the destinations it reports are those that were enabled when it
\* was made.
C24_OutcomeIndependentOfOtherRequests ==
    \A i \in Calls :
        Succeeded(i) => C24_Forwarded(i) = C24_Expected(outcomes[i].started)

----------------------------------------------------------------------------
(* C25 *)

\* C25: when the outcome of a call is produced its decoding and its write
\* are over, so the file of a Success is there with the decoded bytes; and
\* the response to a request is sent only after the outcome of every
\* payload field of the request has been produced.
C25_OutcomeAfterWriteResponseAfterOutcomes ==
    /\ \A i \in Calls :
          Succeeded(i) =>
              /\ outcomes[i].writes = 1
              /\ PathOf(i) \in DOMAIN files
              /\ files[PathOf(i)] = outcomes[i].decodedData
    /\ (Answered /\ Response.status = 200) =>
          LET fields == FileFields(Request.body)
          IN  /\ Len(Response.files) = Len(fields)
              /\ \A k \in 1..Len(fields) :
                    /\ Response.files[k].fieldname = fields[k]
                    /\ \E i \in Calls : outcomes[i].result = Response.files[k]

\* a request was answered after both its calls had waited for a destination
C25_AnsweredAfterUploads ==
    /\ Answered
    /\ Response.status = 200
    /\ Len(outcomes) = 2
    /\ \A i \in Calls : Succeeded(i) /\ outcomes[i].result.remoteUploads # <<>>

----------------------------------------------------------------------------
(* C29 *)

\* the place of a destination in the order s3, ftp, http
C29_Rank(d) == CASE d = "s3" -> 1 [] d = "ftp" -> 2 [] d = "http" -> 3

\* the destinations call c has tried so far, the one it waits for included
C29_Tried(c) ==
    [k \in 1..Len(c.remoteUploads) |-> c.remoteUploads[k].destination]
        \o (IF c.pc # 0 THEN <<Destinations[c.pc]>> ELSE <<>>)

\* what the calls have recorded: uploads only after the local write, in the
\* order s3, ftp, http and once each; an upload that failed is an entry with
\* success false in the outcome, which is a Success whose file is there
C29_Recorded(calls, fsys) ==
    \A i \in 1..Len(calls) :
        LET c == calls[i]
            tried == C29_Tried(c)
        IN  /\ tried # <<>> =>
                  c.writes = 1 /\ c.local.success /\ c.local.path \in DOMAIN fsys
            /\ \A j, k \in 1..Len(tried) : j < k => C29_Rank(tried[j]) < C29_Rank(tried[k])
            /\ (c.result # Null /\ c.remoteUploads # <<>>) =>
                  /\ c.result[1].success
                  /\ c.result[1].remoteUploads = c.remoteUploads
                  /\ c.result[1].path \in DOMAIN fsys
                  /\ fsys[c.result[1].path] = c.decodedData

\* call i starts an upload in this step
C29_Attempts(i) ==
    /\ inflight'[i].pc # 0
    /\ inflight = <<>> \/ inflight[i].pc # inflight'[i].pc

====
